---- MODULE Spec2Model ----
(***************************************************************************)
(* Model of src/camera.js: the PoseNet camera demo that scores the live    *)
(* left-elbow angle against the angle of a reference image.                *)
(*                                                                         *)
(* Units.  Angles are integers in tenths of a degree (900 is 90 degrees),  *)
(* confidences are integers in hundredths (70 is 0.7).  The displayed      *)
(* score is the integer written after 'SCORE: ', or Placeholder while the  *)
(* element still holds its initial content.                                *)
(*                                                                         *)
(* JavaScript runs each continuation to completion, so every action below  *)
(* is one continuation: the code from one await (or callback entry) up to  *)
(* the next await or the end of the function.                              *)
(***************************************************************************)
EXTENDS Integers, Sequences, FiniteSets

VARIABLES
    bindPc,         \* position of bindPage
    info,           \* TRUE once the 'info' element shows the camera message
    algorithm,      \* guiState.algorithm
    started,        \* TRUE once detectPoseInRealTime has been called
    inflight,       \* frame-loop estimatePoses(video) calls still pending
    rafQueue,       \* poseDetectionFrame callbacks queued by requestAnimationFrame
    userLeftElbow,  \* userResult.leftElbow
    imgLeftElbow,   \* imgResult.leftElbow
    display,        \* content of the 'score-placeholder' element
    refPc,          \* position of testImageAndEstimatePoses
    inputTensor,    \* the tensor 'input' of testImageAndEstimatePoses
    refWritten,     \* history: TRUE once line 229 has assigned imgResult.leftElbow
    tickLog,        \* history: what the last frame continuation did, pose by pose
    tickEnd,        \* history: how the last frame continuation ended
    netLoaded,      \* TRUE once posenet.load has resolved (const net, line 241)
    video,          \* outcome of loadVideo(): "none", "ready" or "failed"
    predictedPoses, \* predictedPoses: <<>> for null, or poses[0] (line 226)
    tickPoses,      \* history: the poses the last frame's estimation returned
    lastScored,     \* history: <<reference, live>> of the last pose that scored
    probe           \* inputs and results of recalculate() evaluated on its own

vars == <<bindPc, info, algorithm, started, inflight, rafQueue, userLeftElbow,
          imgLeftElbow, display, refPc, inputTensor, refWritten, tickLog, tickEnd,
          netLoaded, video, predictedPoses, tickPoses, lastScored, probe>>

(***************************************************************************)
(* Bounds of the model.                                                    *)
(***************************************************************************)
\* Longest list of poses one multi-pose estimation returns in the model.
MaxPoses == 2
\* Cap on the pending-call and queued-callback counters.
MaxPending == 3

\* Degrees to the model's unit, tenths of a degree.
Tenths(deg) == deg * 10

(***************************************************************************)
(* Program constants.                                                      *)
(***************************************************************************)
\* const distance = 20 (degrees)
distance == 20
\* guiState.singlePoseDetection.minPoseConfidence = 0.7 (hundredths)
singleMinPoseConfidence == 70
\* guiState.multiPoseDetection.minPoseConfidence = 0.15 (hundredths)
multiMinPoseConfidence == 15
\* userResult = { leftElbow: 0 }
userResultInit == 0
\* Variant: the reference angle starts at 90 degrees.
imgResultInitRight == Tenths(90)
\* imgResult = { leftElbow: 0 }
imgResultInit == 0
\* content of the score element before any 'SCORE: n' is written
Placeholder == -1

Abs(x) == IF x < 0 THEN -x ELSE x

(***************************************************************************)
(* Keypoints.  A point is the centre of a circle, <<>>, or the point of    *)
(* the circle at direction d (tenths of a degree), <<d>>.  Angles between  *)
(* such points are exact multiples of the unit.                            *)
(***************************************************************************)
Center == <<>>
Rim(d) == <<d>>
Dir(p) == p[1]

\* The smaller arc between two directions.
Arc(d1, d2) == LET x == Abs(d1 - d2) IN IF x > 1800 THEN 3600 - x ELSE x

\* Outcome of calculateAngle on a degenerate triple: it fails (throws).
Degenerate == -1

\* calculateAngle(a, b, c): the angle at b between the rays to a and to c,
\* in [0, 180] degrees; fails when b coincides with a or with c.
calculateAngle(a, b, c) ==
    IF a = b \/ c = b THEN Degenerate
    ELSE IF a = c THEN 0
    ELSE IF b = Center THEN Arc(Dir(a), Dir(c))
    ELSE IF a = Center THEN (1800 - Arc(Dir(b), Dir(c))) \div 2
    ELSE IF c = Center THEN (1800 - Arc(Dir(b), Dir(a))) \div 2
    ELSE LET ccw == (Dir(c) - Dir(a)) % 3600
             bOn == ((Dir(b) - Dir(a)) % 3600) < ccw
         IN  (IF bOn THEN 3600 - ccw ELSE ccw) \div 2

\* The keypoints of a pose that the program reads: 5 leftShoulder,
\* 7 leftElbow, 9 leftWrist.
Arm(wrist, elbow, shoulder) ==
    [i \in {5, 7, 9} |-> IF i = 5 THEN shoulder ELSE IF i = 7 THEN elbow ELSE wrist]

\* An arm bent by angle d at the elbow.
Bend(d) == Arm(Rim(d), Center, Rim(0))

\* A pose as estimatePoses returns it: { score, keypoints }.
Pose(s, k) == [score |-> s, keypoints |-> k]

\* Poses the model lets a single-person estimatePoses(video) return.
SinglePoses ==
    { Pose(90, Bend(900)), Pose(90, Bend(1000)), Pose(90, Bend(1100)),
      Pose(90, Bend(1110)), Pose(90, Bend(100)), Pose(90, Bend(0)),
      Pose(90, Arm(Center, Center, Rim(0))),
      Pose(70, Bend(899)), Pose(50, Bend(900)) }

\* Poses the model lets estimatePoses(input) return for the reference image.
RefPoses ==
    { Pose(90, Bend(900)), Pose(70, Bend(1000)), Pose(50, Bend(900)),
      Pose(90, Bend(0)), Pose(90, Arm(Rim(900), Rim(900), Rim(0))) }

\* Poses the model lets a multi-person estimatePoses(video) return.
MultiPoses ==
    { Pose(90, Bend(900)), Pose(50, Bend(1110)), Pose(15, Bend(1000)),
      Pose(10, Bend(900)), Pose(90, Arm(Center, Center, Rim(0))) }

\* Lists of at most n poses.
PoseLists(n) == UNION { [1..k -> MultiPoses] : k \in 0..n }

\* What estimatePoses(video) can resolve with: one pose when decoding a
\* single person, up to MaxPoses poses when decoding several.
Estimates(alg) ==
    IF alg = "single-pose" THEN [1..1 -> SinglePoses] ELSE PoseLists(MaxPoses)

\* Every list of poses some mode can resolve with.
AllEstimates == Estimates("single-pose") \cup Estimates("multi-pose")

(***************************************************************************)
(* recalculate, lines 265-271.                                             *)
(***************************************************************************)
\* Variant: the score grows with the difference ("1 -" is missing).
PercentRising(img, user) ==
    (2 * Abs(img - user) * 100 + Tenths(distance)) \div (2 * Tenths(distance))

\* Variant: truncation instead of rounding.
MathTrunc(num, den) == num \div den

\* Math.round of the non-negative rational num/den: nearest integer, halves up.
MathRound(num, den) == (2 * num + den) \div (2 * den)

\* The score of line 267 and 269 for two angles at most distance apart.
Percent(img, user) ==
    MathRound((Tenths(distance) - Abs(img - user)) * 100, Tenths(distance))

\* Variant: no tolerance test.
ScoresAnyDelta(img, user) == user # 0

\* Variant: no truthiness test of the live angle.
ScoresZeroLive(img, user) == Abs(img - user) <= Tenths(distance)

\* The condition of line 266: the live angle is truthy and within distance.
Scores(img, user) == user # 0 /\ Abs(img - user) <= Tenths(distance)

\* Variant: an angle out of tolerance clears the element.
recalculateClear(img, user, disp) ==
    IF Scores(img, user) THEN Percent(img, user) ELSE Placeholder

\* The content of the score element after recalculate().
recalculate(img, user, disp) ==
    IF Scores(img, user) THEN Percent(img, user) ELSE disp

(***************************************************************************)
(* The body of poseDetectionFrame after its await, lines 161-177.          *)
(***************************************************************************)
\* minPoseConfidence of the current mode, lines 131 and 144.
MinPoseConfidence(alg) ==
    IF alg = "single-pose" THEN singleMinPoseConfidence ELSE multiMinPoseConfidence

\* Variant: every pose passes.
PoseGateOpen(score, min) == TRUE

\* The test of line 162.
PoseGate(score, min) == score >= min

\* The right-hand side of line 163.
UserAngle(keypoints) == calculateAngle(keypoints[9], keypoints[7], keypoints[5])

\* Variant: the reference path takes the wrist as the vertex.
ImgAngleWristVertex(keypoints) ==
    calculateAngle(keypoints[7], keypoints[9], keypoints[5])

\* The right-hand side of line 229.
ImgAngle(keypoints) == calculateAngle(keypoints[9], keypoints[7], keypoints[5])

\* One pass of the forEach callback over pose p, from the state st =
\* [user, disp, log, threw]; once an exception has been thrown nothing runs.
ForEachStep(st, p, min, img) ==
    IF st.threw THEN st
    ELSE IF ~PoseGate(p.score, min)
    THEN [st EXCEPT !.log = Append(@,
            [score |-> p.score, passed |-> FALSE, angle |-> 0, img |-> img,
             userBefore |-> st.user, userAfter |-> st.user,
             dispBefore |-> st.disp, dispAfter |-> st.disp])]
    ELSE LET a == UserAngle(p.keypoints) IN
         IF a = Degenerate
         THEN [st EXCEPT !.threw = TRUE, !.log = Append(@,
                [score |-> p.score, passed |-> TRUE, angle |-> a, img |-> img,
                 userBefore |-> st.user, userAfter |-> st.user,
                 dispBefore |-> st.disp, dispAfter |-> st.disp])]
         ELSE LET d == recalculate(img, a, st.disp) IN
              [user |-> a, disp |-> d, threw |-> FALSE,
               log |-> Append(st.log,
                [score |-> p.score, passed |-> TRUE, angle |-> a, img |-> img,
                 userBefore |-> st.user, userAfter |-> a,
                 dispBefore |-> st.disp, dispAfter |-> d])]

RECURSIVE ForEach(_, _, _, _)
\* poses.forEach(...), left to right.
ForEach(st, poses, min, img) ==
    IF poses = <<>> THEN st
    ELSE ForEach(ForEachStep(st, Head(poses), min, img), Tail(poses), min, img)

\* Variant: the next frame is requested twice.
ScheduleNextTwice(q) == q + 2

\* requestAnimationFrame(poseDetectionFrame), line 177.
ScheduleNext(q) == q + 1

(***************************************************************************)
(* Initial state: the module has been evaluated and bindPage() has run up  *)
(* to its first await, posenet.load (lines 66-101, 196-197, 240-241).      *)
(***************************************************************************)
InitState ==
    /\ bindPc = "loadNet"
    /\ info = FALSE
    /\ netLoaded = FALSE
    /\ video = "none"
    /\ started = FALSE
    /\ inflight = 0
    /\ rafQueue = 0
    /\ userLeftElbow = userResultInit
    /\ imgLeftElbow = imgResultInit
    /\ display = Placeholder
    /\ refPc = "idle"
    /\ inputTensor = "none"
    /\ predictedPoses = <<>>
    /\ refWritten = FALSE
    /\ tickLog = <<>>
    /\ tickEnd = "none"
    /\ tickPoses = <<>>
    /\ lastScored = <<>>

\* The program's initial state; recalculate() has not been evaluated on
\* its own.
InitCommon == InitState /\ probe = <<>>

\* guiState.algorithm as line 67 sets it.
Init == InitCommon /\ algorithm = "single-pose"

\* Either estimation mode of the switch of line 124.
InitAnyMode == InitCommon /\ algorithm \in {"single-pose", "multi-pose"}

(***************************************************************************)
(* bindPage, lines 239-263.                                                *)
(***************************************************************************)
\* Variant: loadVideo() is called without await.
AwaitsVideoMissing == FALSE

\* Line 252 awaits loadVideo().
AwaitsVideo == TRUE

\* Variant: the catch swallows the error.
CatchSwallows == FALSE

\* The catch of lines 254-259 rethrows (line 258).
CatchRethrows == TRUE

\* Lines 260-262 and the end of bindPage: detectPoseInRealTime calls
\* poseDetectionFrame, which issues estimatePoses(video) and awaits;
\* testImageAndEstimatePoses runs up to its await of loadImage.
StartDemo ==
    /\ bindPc' = "done"
    /\ started' = TRUE
    /\ inflight' = inflight + 1
    /\ refPc' = "loadImage"

\* posenet.load resolves: bindPage goes on to await loadVideo().
LoadNetResolve ==
    /\ bindPc = "loadNet"
    /\ netLoaded' = TRUE
    /\ IF AwaitsVideo
       THEN bindPc' = "loadVideo" /\ UNCHANGED <<started, inflight, refPc>>
       ELSE StartDemo
    /\ UNCHANGED <<info, video, algorithm, rafQueue, userLeftElbow,
                   imgLeftElbow, display, inputTensor, predictedPoses,
                   refWritten, tickLog, tickEnd, tickPoses, lastScored, probe>>

\* posenet.load rejects: bindPage rejects at line 241.
LoadNetReject ==
    /\ bindPc = "loadNet"
    /\ bindPc' = "rejected"
    /\ UNCHANGED <<info, netLoaded, video, algorithm, started, inflight,
                   rafQueue, userLeftElbow, imgLeftElbow, display, refPc,
                   inputTensor, predictedPoses, refWritten, tickLog, tickEnd,
                   tickPoses, lastScored, probe>>

\* loadVideo() resolves: lines 253 and 260-262 run.
LoadVideoResolve ==
    /\ bindPc = "loadVideo"
    /\ video' = "ready"
    /\ StartDemo
    /\ UNCHANGED <<info, netLoaded, algorithm, rafQueue, userLeftElbow,
                   imgLeftElbow, display, inputTensor, predictedPoses,
                   refWritten, tickLog, tickEnd, tickPoses, lastScored, probe>>

\* loadVideo() rejects: the catch of lines 254-259 shows the message and
\* rethrows, so bindPage rejects.
LoadVideoReject ==
    /\ bindPc = "loadVideo"
    /\ video' = "failed"
    /\ info' = TRUE
    /\ IF CatchRethrows
       THEN bindPc' = "rejected" /\ UNCHANGED <<started, inflight, refPc>>
       ELSE StartDemo
    /\ UNCHANGED <<netLoaded, algorithm, rafQueue, userLeftElbow,
                   imgLeftElbow, display, inputTensor, predictedPoses,
                   refWritten, tickLog, tickEnd, tickPoses, lastScored, probe>>

(***************************************************************************)
(* poseDetectionFrame, lines 120-178.                                      *)
(***************************************************************************)
\* A queued callback runs: poseDetectionFrame issues estimatePoses(video)
\* and awaits it (lines 121-141).
RafFire ==
    /\ rafQueue > 0
    /\ inflight < MaxPending
    /\ rafQueue' = rafQueue - 1
    /\ inflight' = inflight + 1
    /\ UNCHANGED <<bindPc, info, netLoaded, video, algorithm, started,
                   userLeftElbow, imgLeftElbow, display, refPc, inputTensor,
                   predictedPoses, refWritten, tickLog, tickEnd, tickPoses,
                   lastScored, probe>>

\* The forEach of lines 161-175 over poses, from the current state.
FrameResult(poses) ==
    ForEach([user |-> userLeftElbow, disp |-> display, log |-> <<>>,
             threw |-> FALSE],
            poses, MinPoseConfidence(algorithm), imgLeftElbow)

RECURSIVE LastScoring(_, _, _, _)
\* History: <<reference, live>> of the last pose of poses, if any, that the
\* forEach reached with a confidence of at least min and a non-zero live
\* angle at most distance from the reference img; prev when there is none.
LastScoring(prev, poses, min, img) ==
    IF poses = <<>> THEN prev
    ELSE LET p == Head(poses)
             a == UserAngle(p.keypoints)
         IN IF p.score < min THEN LastScoring(prev, Tail(poses), min, img)
            ELSE IF a = Degenerate THEN prev
            ELSE IF a # 0 /\ a - img <= 10 * distance /\ img - a <= 10 * distance
                 THEN LastScoring(<<img, a>>, Tail(poses), min, img)
                 ELSE LastScoring(prev, Tail(poses), min, img)

\* A pending estimatePoses(video) resolves with poses: lines 130-177 run.
\* An exception out of the forEach rejects the promise of
\* poseDetectionFrame before line 177.
FrameResolve(poses) ==
    /\ poses \in Estimates(algorithm)
    /\ inflight > 0
    /\ rafQueue < MaxPending
    /\ userLeftElbow' = FrameResult(poses).user
    /\ display' = FrameResult(poses).disp
    /\ tickLog' = FrameResult(poses).log
    /\ tickEnd' = IF FrameResult(poses).threw THEN "threw" ELSE "scheduled"
    /\ rafQueue' = IF FrameResult(poses).threw THEN rafQueue
                   ELSE ScheduleNext(rafQueue)
    /\ inflight' = inflight - 1
    /\ tickPoses' = poses
    /\ lastScored' = LastScoring(lastScored, poses,
                                 MinPoseConfidence(algorithm), imgLeftElbow)
    /\ UNCHANGED <<bindPc, info, netLoaded, video, algorithm, started,
                   imgLeftElbow, refPc, inputTensor, predictedPoses,
                   refWritten, probe>>

\* A pending estimatePoses(video) rejects: the await of line 126 or 135
\* throws and the promise of poseDetectionFrame rejects.
FrameReject ==
    /\ inflight > 0
    /\ inflight' = inflight - 1
    /\ tickLog' = <<>>
    /\ tickEnd' = "rejected"
    /\ tickPoses' = <<>>
    /\ UNCHANGED <<bindPc, info, netLoaded, video, algorithm, started,
                   rafQueue, userLeftElbow, imgLeftElbow, display, refPc,
                   inputTensor, predictedPoses, refWritten, lastScored, probe>>

(***************************************************************************)
(* testImageAndEstimatePoses, lines 208-233.                               *)
(***************************************************************************)
\* The image loads: line 216 creates the tensor and line 219 issues
\* estimatePoses(input).  (loadImage never rejects: it sets no onerror.)
LoadImageResolve ==
    /\ refPc = "loadImage"
    /\ refPc' = "estimate"
    /\ inputTensor' = "live"
    /\ UNCHANGED <<bindPc, info, netLoaded, video, algorithm, started,
                   inflight, rafQueue, userLeftElbow, imgLeftElbow, display,
                   predictedPoses, refWritten, tickLog, tickEnd, tickPoses,
                   lastScored, probe>>

\* Variant: line 229 assigns userResult.leftElbow.
AssignsUserResult == "userResult"

\* The object whose leftElbow line 229 assigns.
AssignsImgResult == "imgResult"

\* estimatePoses(input) resolves with [pose]: lines 226-232 run.  When
\* calculateAngle fails the function ends at line 229.
RefEstimateResolve(pose) ==
    /\ refPc = "estimate"
    /\ predictedPoses' = pose
    /\ LET pass == pose.score >= singleMinPoseConfidence
           a == ImgAngle(pose.keypoints)
           toImg == AssignsImgResult = "imgResult"
       IN IF pass /\ a = Degenerate
          THEN /\ refPc' = "threw"
               /\ UNCHANGED <<imgLeftElbow, userLeftElbow, refWritten,
                              inputTensor>>
          ELSE /\ refPc' = "done"
               /\ imgLeftElbow' = IF pass /\ toImg THEN a ELSE imgLeftElbow
               /\ userLeftElbow' = IF pass /\ ~toImg THEN a ELSE userLeftElbow
               /\ refWritten' = (refWritten \/ pass)
               /\ inputTensor' = "disposed"
    /\ UNCHANGED <<bindPc, info, netLoaded, video, algorithm, started,
                   inflight, rafQueue, display, tickLog, tickEnd, tickPoses,
                   lastScored, probe>>

\* estimatePoses(input) rejects: the await of line 219 throws, nothing
\* after it runs.
RefEstimateReject ==
    /\ refPc = "estimate"
    /\ refPc' = "rejected"
    /\ UNCHANGED <<bindPc, info, netLoaded, video, algorithm, started,
                   inflight, rafQueue, userLeftElbow, imgLeftElbow, display,
                   inputTensor, predictedPoses, refWritten, tickLog, tickEnd,
                   tickPoses, lastScored, probe>>

Next ==
    \/ LoadNetResolve
    \/ LoadNetReject
    \/ LoadVideoResolve
    \/ LoadVideoReject
    \/ RafFire
    \/ \E poses \in AllEstimates : FrameResolve(poses)
    \/ FrameReject
    \/ LoadImageResolve
    \/ \E pose \in RefPoses : RefEstimateResolve(pose)
    \/ RefEstimateReject

Spec == Init /\ [][Next]_vars

(***************************************************************************)
(* recalculate() on its own: two live angles scored against one reference  *)
(* angle, each from an element that still holds its initial content.       *)
(***************************************************************************)
\* Reference angles of the evaluation: unassigned (0) and 90 degrees.
ProbeRefs == {imgResultInit, Tenths(90)}

\* Live angles of the evaluation, around both ends of the tolerance window
\* of 90 degrees and around 90 degrees itself.
ProbeAngles ==
    (685..715) \cup (880..920) \cup (1085..1115) \cup {0, 1, 100, 200, 800, 1000, 1800}

\* The inputs are drawn, nothing is evaluated yet.
InitScore ==
    /\ InitState
    /\ algorithm = "single-pose"
    /\ probe \in ProbeRefs \X ProbeAngles \X ProbeAngles

\* recalculate() is evaluated for both live angles.
ScorePair ==
    /\ Len(probe) = 3
    /\ probe' = probe \o <<recalculate(probe[1], probe[2], Placeholder),
                            recalculate(probe[1], probe[3], Placeholder)>>
    /\ UNCHANGED <<bindPc, info, netLoaded, video, algorithm, started,
                   inflight, rafQueue, userLeftElbow, imgLeftElbow, display,
                   refPc, inputTensor, predictedPoses, refWritten, tickLog,
                   tickEnd, tickPoses, lastScored>>

NextScore == ScorePair

SpecScore == InitScore /\ [][NextScore]_vars

SpecAnyMode == InitAnyMode /\ [][Next]_vars

(***************************************************************************)
(* Properties.                                                             *)
(***************************************************************************)
\* The records of the last frame continuation.
Ticks == { tickLog[i] : i \in DOMAIN tickLog }

\* The pose of record r reached recalculate() with a truthy live angle, so
\* line 266 read imgResult.leftElbow.
ReadsRef(r) == r.passed /\ r.angle # Degenerate /\ r.angle # 0

\* The frame loop has a call pending or a callback queued.
LoopAlive == inflight + rafQueue >= 1

\* C1: at most one frame-loop estimatePoses(video) call is pending at any
\* time, and no poseDetectionFrame callback is queued while a call is
\* pending: the next frame is requested only by the continuation that
\* consumes the previous result.
C1_SingleInFlight == inflight <= 1 /\ inflight + rafQueue <= 1

\* C1 witness: a frame has been processed and the call of the next frame
\* is pending.
C1_Witness == inflight = 1 /\ tickLog # <<>> /\ tickEnd = "scheduled"

\* C2: while the reference load has not assigned imgResult.leftElbow no
\* step changes the displayed score.
C2_NoScoreWhileAbsent == [][~refWritten => display' = display]_vars

\* C3: for a written reference angle r and a truthy live angle l, with
\* delta = |r - l|: when delta <= distance the score written is
\* round((1 - delta/distance) * 100), that is the integer s with
\* s - 1/2 <= 100 * (distance - delta) / distance < s + 1/2; it is 100 at
\* delta = 0 and 0 at delta = distance; when delta > distance nothing is
\* written.  With r = 90 degrees, l = 90, 100 and 111 degrees give 100, 50
\* and no score.
C3_ScoreFormula ==
    \A r \in Ticks :
        (refWritten /\ ReadsRef(r)) =>
            LET tol == 10 * distance
                delta == IF r.img >= r.angle THEN r.img - r.angle
                         ELSE r.angle - r.img
                s == r.dispAfter
            IN /\ delta <= tol =>
                    /\ (2 * s - 1) * tol <= 200 * (tol - delta)
                    /\ 200 * (tol - delta) < (2 * s + 1) * tol
               /\ delta = 0 => s = 100
               /\ delta = tol => s = 0
               /\ delta > tol => s = r.dispBefore
               /\ (r.img = 900 /\ r.angle = 900) => s = 100
               /\ (r.img = 900 /\ r.angle = 1000) => s = 50
               /\ (r.img = 900 /\ r.angle = 1110) => s = r.dispBefore

\* C3 witness: against the written reference angle of 90 degrees a live
\* angle of 100 degrees has just been scored 50.
C3_Witness ==
    /\ refWritten
    /\ \E r \in Ticks : ReadsRef(r) /\ r.img = 900 /\ r.angle = 1000
                         /\ r.dispAfter = 50 /\ r.dispBefore # 50

C5_TensorReleased ==
    refPc \in {"done", "rejected"} => inputTensor = "disposed"

\* C6: once the reference load has completed with a pose below the
\* single-pose threshold, leaving the reference angle unassigned, no step
\* changes the displayed score.
C6_NoScoreAfterLowConfidence ==
    [][(refPc = "done" /\ ~refWritten) => display' = display]_vars

\* C7: when recalculate() runs with |reference - live| > distance the
\* content of the score element is left as it was.
C7_StickyDisplay ==
    \A r \in Ticks :
        (r.passed /\ r.angle # Degenerate
           /\ (r.img - r.angle > 10 * distance \/ r.angle - r.img > 10 * distance))
        => r.dispAfter = r.dispBefore

\* C7 witness: a score was displayed and a pose out of tolerance has just
\* been processed.
C7_Witness ==
    \E r \in Ticks :
        /\ r.passed /\ r.angle = 1110 /\ r.img = 900
        /\ r.dispBefore \in 0..100 /\ r.dispAfter = r.dispBefore

\* C8: a pose whose confidence is below the threshold of the current mode
\* changes neither userResult.leftElbow nor the displayed score, and a
\* frame whose poses are all below the threshold requests the next frame.
C8_LowConfidenceExcluded ==
    /\ \A r \in Ticks :
          r.score < MinPoseConfidence(algorithm) =>
              (r.userAfter = r.userBefore /\ r.dispAfter = r.dispBefore)
    /\ (tickLog # <<>> /\ \A r \in Ticks : r.score < MinPoseConfidence(algorithm))
          => (tickEnd = "scheduled" /\ LoopAlive /\ userLeftElbow \in {r.userBefore : r \in Ticks})

\* C8 witness: a frame with one pose below the threshold has been
\* processed after an angle and a score had been recorded, and the next
\* frame is queued.
C8_Witness ==
    /\ Len(tickLog) = 1
    /\ tickLog[1].score < MinPoseConfidence(algorithm)
    /\ tickLog[1].userBefore # 0
    /\ tickLog[1].dispBefore \in 0..100
    /\ rafQueue = 1

\* C9: a frame in which calculateAngle failed on a degenerate pose writes
\* no score for that pose, ends by requesting the next frame and not by an
\* exception, and leaves the frame loop running.
C9_DegenerateRecovered ==
    \A r \in Ticks :
        (r.passed /\ r.angle = Degenerate) =>
            (r.dispAfter = r.dispBefore /\ tickEnd = "scheduled" /\ LoopAlive)

\* C10: once detectPoseInRealTime has started the loop, a call is pending
\* or the next frame is queued, in every state, whatever the outcomes of
\* the estimation calls (a frame ended by a failure of calculateAngle is
\* the case of C9 and is left out here).
C10_LoopNeverStops == (started /\ tickEnd # "threw") => LoopAlive

\* C11: the frame loop is started, and a frame-loop estimatePoses(video)
\* call is pending or a frame is queued, only when posenet.load and
\* loadVideo() have both resolved; and once started the loop is never
\* started again: detectPoseInRealTime is not called a second time.
C11_StartAfterBothLoads ==
    /\ []((started \/ inflight > 0 \/ rafQueue > 0 \/ tickEnd # "none")
            => (netLoaded /\ video = "ready" /\ bindPc = "done"))
    /\ [][started => (started' /\ bindPc' = bindPc)]_vars

\* C11 witness: both loads have resolved and the first estimation call of
\* the frame loop is pending.
C11_Witness ==
    started /\ netLoaded /\ video = "ready" /\ inflight = 1 /\ tickEnd = "none"

\* C12: when loadVideo() has failed, the camera message is shown, bindPage
\* has rejected, and the frame loop has not been started: no estimation
\* call is pending and no frame is queued.
C12_CameraFailureSurfaced ==
    video = "failed" =>
        /\ info
        /\ bindPc = "rejected"
        /\ ~started /\ inflight = 0 /\ rafQueue = 0 /\ tickEnd = "none"

\* C12 witness: the model has loaded and loadVideo() has failed.
C12_Witness == netLoaded /\ video = "failed" /\ info

C14_WrittenExactlyOnce == refPc = "done" => refWritten

\* C14 amended: imgResult.leftElbow is written at most once per session,
\* only by the continuation that completes the reference load, and never
\* changes afterwards; no step of the frame loop changes it; and no step
\* of the reference load changes userResult.leftElbow or the displayed
\* score.
C14_ReferenceWrittenAtMostOnce ==
    /\ [][imgLeftElbow' # imgLeftElbow =>
            (refPc = "estimate" /\ refPc' = "done" /\ ~refWritten /\ refWritten')]_vars
    /\ [][refWritten => (refWritten' /\ imgLeftElbow' = imgLeftElbow)]_vars
    /\ [][(inflight' # inflight \/ rafQueue' # rafQueue) =>
            (imgLeftElbow' = imgLeftElbow /\ refWritten' = refWritten)]_vars
    /\ [][refPc' # refPc =>
            (userLeftElbow' = userLeftElbow /\ display' = display)]_vars

\* C14 witness: the reference load has written the angle of 90 degrees
\* and a later frame has read it and recorded its own live angle.
C14_Witness ==
    /\ refWritten /\ imgLeftElbow = 900 /\ userLeftElbow = 1000
    /\ \E r \in Ticks : ReadsRef(r) /\ r.img = 900

\* The evaluation of recalculate() on its own is done and both live
\* angles are non-zero and at most distance from the reference angle.
BothScored ==
    /\ Len(probe) = 5
    /\ probe[2] # 0 /\ probe[3] # 0
    /\ probe[2] - probe[1] <= 10 * distance /\ probe[1] - probe[2] <= 10 * distance
    /\ probe[3] - probe[1] <= 10 * distance /\ probe[1] - probe[3] <= 10 * distance

\* |reference - first live angle| and |reference - second live angle|.
Delta1 == IF probe[2] >= probe[1] THEN probe[2] - probe[1] ELSE probe[1] - probe[2]
Delta2 == IF probe[3] >= probe[1] THEN probe[3] - probe[1] ELSE probe[1] - probe[3]

\* C15 as claimed: within the tolerance window a smaller difference always
\* gives a strictly greater score.
C15_StrictlyDecreasing ==
    (BothScored /\ Delta1 < Delta2) => probe[4] > probe[5]

\* C15 amended: within the tolerance window the score never increases as
\* the difference increases, and it strictly decreases between two
\* differences at least distance/100 (0.2 degrees) apart; closer
\* differences can round to the same score.
C15_NonIncreasing ==
    (BothScored /\ Delta1 < Delta2) =>
        /\ probe[4] >= probe[5]
        /\ 100 * (Delta2 - Delta1) >= 10 * distance => probe[4] > probe[5]
        /\ probe[4] \in 0..100 /\ probe[5] \in 0..100

\* C15 witness: differences of 1 and 1.2 degrees have been scored 95 and
\* 94.
C15_Witness == probe = <<900, 910, 912, 95, 94>>

\* The indices of the poses the last estimation returned with a
\* confidence of at least the threshold of the mode.
AboveThreshold ==
    { i \in DOMAIN tickPoses : tickPoses[i].score >= MinPoseConfidence(algorithm) }

\* The indices of the poses of the last frame for which line 163 assigned
\* the live angle and line 164 called recalculate().
Computed ==
    { i \in DOMAIN tickLog : tickLog[i].passed /\ tickLog[i].angle # Degenerate }

\* C16: in multi-pose mode, a frame whose estimation returned N poses at
\* or above the threshold has made exactly N live-angle and score
\* computations, one for each such pose: each assigned the angle of its
\* own pose, each compared it with the same reference angle, and each
\* score written is the rounded percentage of its own pose's difference.
C16_IndependentComputations ==
    (algorithm = "multi-pose" /\ tickEnd \in {"scheduled", "threw"}) =>
        /\ Computed = AboveThreshold
        /\ \A i \in Computed :
              LET r == tickLog[i]
                  delta == IF r.img >= r.angle THEN r.img - r.angle
                           ELSE r.angle - r.img
              IN /\ r.userAfter = r.angle
                 /\ \A j \in Computed : tickLog[j].img = r.img
                 /\ IF r.angle # 0 /\ delta <= 10 * distance
                    THEN /\ (2 * r.dispAfter - 1) * distance <= 20 * (10 * distance - delta)
                         /\ 20 * (10 * distance - delta) < (2 * r.dispAfter + 1) * distance
                    ELSE r.dispAfter = r.dispBefore

\* The indices of the live poses of the last frame that passed the gate of
\* line 162 and have the keypoints of the pose the reference load was given,
\* when that pose passed the gate of line 228.
SamePoseBothPaths ==
    { i \in DOMAIN tickLog :
        /\ i \in DOMAIN tickPoses
        /\ tickLog[i].passed
        /\ refPc \in {"done", "threw"}
        /\ predictedPoses # <<>>
        /\ predictedPoses.score >= singleMinPoseConfidence
        /\ tickPoses[i].keypoints = predictedPoses.keypoints }

\* C17: the reference path and the live path derive the angle in the same
\* way, from keypoints 9, 7 and 5 in that order: when a live pose and the
\* reference pose have the same keypoints and both pass their gates, the
\* live angle assigned at line 163 is the reference angle assigned at line
\* 229, and the angle function fails on one path exactly when it fails on
\* the other.
C17_SameAngleBothPaths ==
    \A i \in SamePoseBothPaths :
        LET k == predictedPoses.keypoints
        IN /\ tickLog[i].angle = calculateAngle(k[9], k[7], k[5])
           /\ IF tickLog[i].angle = Degenerate
              THEN refPc = "threw"
              ELSE /\ refPc = "done"
                   /\ refWritten
                   /\ imgLeftElbow = tickLog[i].angle

C17_Witness ==
    /\ refPc = "done"
    /\ imgLeftElbow = Tenths(90)
    /\ \E i \in SamePoseBothPaths : tickLog[i].angle = Tenths(90)

\* C18: in every reachable state the displayed score is the initial
\* placeholder or a whole number from 0 to 100, and so was the content
\* after every recalculate() of the last frame.
C18_DisplayInRange ==
    /\ display = Placeholder \/ display \in 0..100
    /\ \A r \in Ticks :
          r.passed /\ r.angle # Degenerate =>
              (r.dispAfter = Placeholder \/ r.dispAfter \in 0..100)

C18_Witness ==
    /\ display = 0
    /\ \E r \in Ticks :
          ReadsRef(r) /\ r.dispBefore = 100 /\ r.dispAfter = 0

\* C19: the displayed score is the score of the most recently processed
\* live pose that passed the gate, had a non-zero live angle and was within
\* tolerance of the reference value held at that moment (the last writer
\* wins, also among the poses of one frame); when there has been no such
\* pose the display holds its initial content.
C19_LastWriterWins ==
    IF lastScored = <<>>
    THEN display = Placeholder
    ELSE LET delta == IF lastScored[1] >= lastScored[2]
                      THEN lastScored[1] - lastScored[2]
                      ELSE lastScored[2] - lastScored[1]
         IN /\ (2 * display - 1) * distance <= 20 * (10 * distance - delta)
            /\ 20 * (10 * distance - delta) < (2 * display + 1) * distance

C19_Witness ==
    /\ algorithm = "multi-pose"
    /\ Len(tickLog) = 2
    /\ tickLog[1].dispAfter = 100
    /\ tickLog[2].dispAfter = 50
    /\ display = 50
    /\ lastScored = <<Tenths(90), Tenths(100)>>

\* C20: a live angle of exactly 0 is treated as absent: the recalculate()
\* that follows its assignment writes no score and leaves the display as
\* it was, whatever the reference angle, also one within tolerance of 0.
C20_ZeroLiveAngleAbsent ==
    \A r \in Ticks :
        (r.passed /\ r.angle = 0) =>
            /\ r.userAfter = 0
            /\ r.dispAfter = r.dispBefore

C20_Witness ==
    /\ refWritten
    /\ imgLeftElbow = 0
    /\ \E r \in Ticks :
          /\ r.passed
          /\ r.angle = 0
          /\ r.img = 0
          /\ r.dispBefore = 50
          /\ r.dispAfter = 50

====
